---- MODULE Spec2Model ----
(***************************************************************************)
(* PaperTrail (papertrail.py): citation store, metadata extraction from a  *)
(* fetched page, the Vancouver / APA / MLA formatters and the bibliography *)
(* preview / export handlers.                                              *)
(*                                                                         *)
(* A Python str is modelled as a sequence of one-character strings, so     *)
(* that split, strip, join, rstrip, upper and the regular-expression scans *)
(* are computed character by character as the interpreter computes them.   *)
(***************************************************************************)
EXTENDS Integers, Sequences, FiniteSets, TLC

VARIABLES
    citations,      \* rows of the sqlite table `citations`
    sqlite_seq,     \* AUTOINCREMENT high-water mark of the table
    citation_tree,  \* ids shown in the Treeview, in display order
    style_var,      \* selected citation style
    preview_text,   \* content of the preview pane
    msg,            \* messagebox shown by the last handler run
    written,        \* text written to the chosen file by the last handler run
    gets,           \* number of requests.get calls made by the last handler run
    citation,       \* argument of format_citation (formatter harness)
    index,          \* argument of format_citation (formatter harness)
    formatted,      \* style applied and string returned by format_citation
    response,       \* the HTTP response handed to the extractor (extractor harness)
    metadata        \* dict returned by extract_from_url (extractor harness)

vars == <<citations, sqlite_seq, citation_tree, style_var, preview_text, msg,
          written, gets, citation, index, formatted, response, metadata>>

appVars == <<citations, sqlite_seq, citation_tree, style_var, preview_text, msg,
             written, gets>>
formatVars == <<citation, index, formatted>>
extractVars == <<response, metadata>>

----------------------------------------------------------------------------
(* Python str builtins                                                     *)

Whitespace == {" ", "\t", "\n"}

LowerLetters == <<"a","b","c","d","e","f","g","h","i","j","k","l","m",
                  "n","o","p","q","r","s","t","u","v","w","x","y","z">>
UpperLetters == <<"A","B","C","D","E","F","G","H","I","J","K","L","M",
                  "N","O","P","Q","R","S","T","U","V","W","X","Y","Z">>
DigitChars == <<"0","1","2","3","4","5","6","7","8","9">>

Min(a, b) == IF a < b THEN a ELSE b

\* c.upper() for a one-character string
Upper(c) ==
    IF \E i \in DOMAIN LowerLetters : LowerLetters[i] = c
    THEN UpperLetters[CHOOSE i \in DOMAIN LowerLetters : LowerLetters[i] = c]
    ELSE c

\* s.split(c): the pieces between occurrences of c, empty pieces kept
Split(s, c) ==
    LET RECURSIVE go(_, _, _)
        go(i, cur, acc) ==
            IF i > Len(s) THEN Append(acc, cur)
            ELSE IF s[i] = c THEN go(i + 1, <<>>, Append(acc, cur))
            ELSE go(i + 1, Append(cur, s[i]), acc)
    IN go(1, <<>>, <<>>)

\* s.split(): the maximal runs of non-whitespace characters
SplitWS(s) ==
    LET RECURSIVE go(_, _, _)
        go(i, cur, acc) ==
            IF i > Len(s) THEN (IF cur = <<>> THEN acc ELSE Append(acc, cur))
            ELSE IF s[i] \in Whitespace
                 THEN go(i + 1, <<>>, IF cur = <<>> THEN acc ELSE Append(acc, cur))
            ELSE go(i + 1, Append(cur, s[i]), acc)
    IN go(1, <<>>, <<>>)

\* s.strip()
Strip(s) ==
    LET keep == {i \in 1..Len(s) : s[i] \notin Whitespace}
    IN IF keep = {} THEN <<>>
       ELSE LET lo == CHOOSE i \in keep : \A j \in keep : i <= j
                hi == CHOOSE i \in keep : \A j \in keep : j <= i
            IN SubSeq(s, lo, hi)

\* s.rstrip(c): every trailing occurrence of c removed
RStrip(s, c) ==
    LET keep == {i \in 1..Len(s) : s[i] # c}
    IN IF keep = {} THEN <<>>
       ELSE SubSeq(s, 1, CHOOSE i \in keep : \A j \in keep : j <= i)

\* sep.join(list)
RECURSIVE Join(_, _)
Join(sep, list) ==
    IF list = <<>> THEN <<>>
    ELSE IF Len(list) = 1 THEN list[1]
    ELSE list[1] \o sep \o Join(sep, Tail(list))

\* str(n) for n >= 0
RECURSIVE IntToStr(_)
IntToStr(n) ==
    IF n < 10 THEN <<DigitChars[n + 1]>>
    ELSE Append(IntToStr(n \div 10), DigitChars[(n % 10) + 1])

\* c * n
Repeat(c, n) == [i \in 1..n |-> c]

----------------------------------------------------------------------------
(* String literals of the formatters                                       *)

CommaSpace == <<",", " ">>
EtAl == <<",", " ", "e", "t", " ", "a", "l", ".">>
Ellipsis == <<",", " ", ".", ".", ".", " ">>
Ampersand == <<",", " ", "&", " ">>
DoiLabel == <<"d", "o", "i", ":">>
AvailableFrom == <<"A", "v", "a", "i", "l", "a", "b", "l", "e", " ", "f", "r", "o", "m", ":", " ">>
DoiOrg == <<"h", "t", "t", "p", "s", ":", "/", "/", "d", "o", "i", ".", "o", "r", "g", "/">>
VolLabel == <<",", " ", "v", "o", "l", ".", " ">>
NoLabel == <<",", " ", "n", "o", ".", " ">>
PpLabel == <<",", " ", "p", "p", ".", " ">>

VancouverCap == 6
APACap == 20
APAShown == 19

----------------------------------------------------------------------------
(* VancouverFormatter                                                      *)

\* One author as "Surname FM"; a name of fewer than two tokens is kept as typed
VancouverName(raw) ==
    LET author == Strip(raw)
        name_parts == SplitWS(author)
    IN IF Len(name_parts) >= 2
       THEN LET surname == name_parts[Len(name_parts)]
                initials == [i \in 1..(Len(name_parts) - 1) |-> Upper(name_parts[i][1])]
            IN surname \o <<" ">> \o initials
       ELSE author

VancouverAuthorsMutNoCap(authorsStr) ==
    LET authors == Split(authorsStr, ",")
        formatted_authors == [i \in 1..Len(authors) |-> VancouverName(authors[i])]
    IN IF Len(authors) > VancouverCap
       THEN Join(CommaSpace, formatted_authors) \o EtAl
       ELSE Join(CommaSpace, formatted_authors) \o <<".">>

VancouverAuthors(authorsStr) ==
    LET authors == Split(authorsStr, ",")
        formatted_authors ==
            [i \in 1..Min(Len(authors), VancouverCap) |-> VancouverName(authors[i])]
    IN IF Len(authors) > VancouverCap
       THEN Join(CommaSpace, formatted_authors) \o EtAl
       ELSE Join(CommaSpace, formatted_authors) \o <<".">>

\* The journal block with the volume separator emitted unconditionally
VancouverJournalMutSeparator(c) ==
    IF c.journal # <<>>
    THEN <<c.journal
           \o (IF c.year # <<>> THEN <<" ">> \o c.year ELSE <<>>)
           \o <<";">> \o c.volume
           \o (IF c.issue # <<>> THEN <<"(">> \o c.issue \o <<")">> ELSE <<>>)
           \o (IF c.pages # <<>> THEN <<":">> \o c.pages ELSE <<>>)
           \o <<".">> >>
    ELSE IF c.year # <<>> THEN <<c.year \o <<".">> >>
    ELSE <<>>

VancouverJournal(c) ==
    IF c.journal # <<>>
    THEN <<c.journal
           \o (IF c.year # <<>> THEN <<" ">> \o c.year ELSE <<>>)
           \o (IF c.volume # <<>> THEN <<";">> \o c.volume ELSE <<>>)
           \o (IF c.issue # <<>> THEN <<"(">> \o c.issue \o <<")">> ELSE <<>>)
           \o (IF c.pages # <<>> THEN <<":">> \o c.pages ELSE <<>>)
           \o <<".">> >>
    ELSE IF c.year # <<>> THEN <<c.year \o <<".">> >>
    ELSE <<>>

VancouverIdentifier(c) ==
    IF c.doi # <<>> THEN <<DoiLabel \o c.doi>>
    ELSE IF c.url # <<>> THEN <<AvailableFrom \o c.url>>
    ELSE <<>>

VancouverTitle(c) ==
    IF c.title # <<>> THEN <<c.title \o <<".">> >> ELSE <<>>

\* The segments after the author segment
VancouverRest(c) == VancouverTitle(c) \o VancouverJournal(c) \o VancouverIdentifier(c)

VancouverFormat(c, idx) ==
    LET parts ==
            (IF c.authors # <<>> THEN <<VancouverAuthors(c.authors)>> ELSE <<>>)
            \o VancouverRest(c)
    IN IntToStr(idx) \o <<".", " ">> \o Join(<<" ">>, parts)

----------------------------------------------------------------------------
(* APAFormatter                                                            *)

\* One author as "Surname, F. M."
APAName(raw) ==
    LET author == Strip(raw)
        name_parts == SplitWS(author)
    IN IF Len(name_parts) >= 2
       THEN LET surname == name_parts[Len(name_parts)]
                initials ==
                    Join(<<".", " ">>,
                         [i \in 1..(Len(name_parts) - 1) |-> <<Upper(name_parts[i][1])>>])
                    \o <<".">>
            IN surname \o CommaSpace \o initials
       ELSE author

APAAuthors(authorsStr) ==
    LET authors == Split(authorsStr, ",")
        formatted_authors ==
            [i \in 1..Min(Len(authors), APACap) |-> APAName(authors[i])]
        n == Len(formatted_authors)
    IN IF Len(authors) > APACap
       THEN Join(CommaSpace, SubSeq(formatted_authors, 1, Min(n, APAShown)))
            \o Ellipsis \o formatted_authors[n]
       ELSE IF n > 1
       THEN Join(CommaSpace, SubSeq(formatted_authors, 1, n - 1))
            \o Ampersand \o formatted_authors[n]
       ELSE formatted_authors[1]

APAJournal(c) ==
    IF c.journal # <<>>
    THEN <<c.journal
           \o (IF c.volume # <<>> THEN CommaSpace \o c.volume ELSE <<>>)
           \o (IF c.issue # <<>> THEN <<"(">> \o c.issue \o <<")">> ELSE <<>>)
           \o (IF c.pages # <<>> THEN CommaSpace \o c.pages ELSE <<>>)
           \o <<".">> >>
    ELSE <<>>

\* The identifier segments with the url emitted beside the doi
APAIdentifierMutBoth(c) ==
    (IF c.doi # <<>> THEN <<DoiOrg \o c.doi>> ELSE <<>>)
    \o (IF c.url # <<>> THEN <<c.url>> ELSE <<>>)

APAIdentifier(c) ==
    IF c.doi # <<>> THEN <<DoiOrg \o c.doi>>
    ELSE IF c.url # <<>> THEN <<c.url>>
    ELSE <<>>

APAYear(c) ==
    IF c.year # <<>> THEN << <<"(">> \o c.year \o <<")", ".">> >> ELSE <<>>

APATitle(c) ==
    IF c.title # <<>> THEN <<c.title \o <<".">> >> ELSE <<>>

\* The segments after the author segment
APARest(c) == APAYear(c) \o APATitle(c) \o APAJournal(c) \o APAIdentifier(c)

APAFormat(c, idx) ==
    LET parts ==
            (IF c.authors # <<>> THEN <<APAAuthors(c.authors)>> ELSE <<>>)
            \o APARest(c)
    IN Join(<<" ">>, parts)

----------------------------------------------------------------------------
(* MLAFormatter                                                            *)

MLAAuthors(authorsStr) ==
    LET authors == Split(authorsStr, ",")
        first_author == Strip(authors[1])
        name_parts == SplitWS(first_author)
        single ==
            IF Len(name_parts) >= 2
            THEN name_parts[Len(name_parts)] \o CommaSpace
                 \o Join(<<" ">>, SubSeq(name_parts, 1, Len(name_parts) - 1)) \o <<".">>
            ELSE first_author \o <<".">>
    IN IF Len(authors) > 1 THEN RStrip(single, ".") \o EtAl ELSE single

MLAJournal(c) ==
    IF c.journal # <<>>
    THEN <<c.journal
           \o (IF c.volume # <<>> THEN VolLabel \o c.volume ELSE <<>>)
           \o (IF c.issue # <<>> THEN NoLabel \o c.issue ELSE <<>>)
           \o (IF c.year # <<>> THEN CommaSpace \o c.year ELSE <<>>)
           \o (IF c.pages # <<>> THEN PpLabel \o c.pages ELSE <<>>)
           \o <<".">> >>
    ELSE IF c.year # <<>> THEN <<c.year \o <<".">> >>
    ELSE <<>>

MLAIdentifier(c) ==
    IF c.doi # <<>> THEN <<DoiLabel \o c.doi \o <<".">> >>
    ELSE IF c.url # <<>> THEN <<c.url \o <<".">> >>
    ELSE <<>>

MLATitle(c) ==
    IF c.title # <<>> THEN << <<"\"">> \o c.title \o <<".", "\"">> >> ELSE <<>>

\* The segments after the author segment
MLARest(c) == MLATitle(c) \o MLAJournal(c) \o MLAIdentifier(c)

MLAFormat(c, idx) ==
    LET parts ==
            (IF c.authors # <<>> THEN <<MLAAuthors(c.authors)>> ELSE <<>>)
            \o MLARest(c)
    IN Join(<<" ">>, parts)

\* self.formatters[style].format_citation(citation, idx)
FormatCitation(style, c, idx) ==
    CASE style = "Vancouver" -> VancouverFormat(c, idx)
      [] style = "APA" -> APAFormat(c, idx)
      [] style = "MLA" -> MLAFormat(c, idx)

Styles == {"Vancouver", "APA", "MLA"}

----------------------------------------------------------------------------
(* Inputs of the formatter harness                                         *)

MaxSmall == 2       \* author lists up to this length take every name of NamePool
MaxAuthors == 22    \* longest author list

\* An author name is a list of tokens; the authors string joins the names'
\* tokens by a space and the names by the separator.
NamePool ==
    { << <<"A","n","n">>, <<"L","e","e">> >>,               \* Ann Lee
      << <<"b","o">>, <<"r",".">>, <<"K","i","m">> >>,      \* bo r. Kim
      << <<"J",".">>, <<"P","o","e">> >>,                   \* J. Poe
      << <<"P","l","a","t","o">> >>,                        \* Plato
      << <<"A","n","o","n",".">> >>,                        \* Anon.
      << >> }                                               \* an empty element

\* The i-th name of a long list: "a Aa", "b Bb", ... or the single tokens "A", "B", ...
LongName(i, twoTokens) ==
    IF twoTokens THEN << <<LowerLetters[i]>>, <<UpperLetters[i], LowerLetters[i]>> >>
    ELSE << <<UpperLetters[i]>> >>

RECURSIVE SeqsUpTo(_, _)
SeqsUpTo(S, n) ==
    IF n = 0 THEN {<<>>}
    ELSE LET shorter == SeqsUpTo(S, n - 1)
         IN shorter \cup {Append(l, x) : l \in {t \in shorter : Len(t) = n - 1}, x \in S}

NameLists ==
    SeqsUpTo(NamePool, MaxSmall)
    \cup {[i \in 1..n |-> LongName(i, b)] : n \in (MaxSmall + 1)..MaxAuthors, b \in BOOLEAN}

Separators == {<<",">>, <<",", " ">>}

AuthorsString(names, sep) ==
    Join(sep, [i \in 1..Len(names) |-> Join(<<" ">>, names[i])])

\* Every author list of the harness with the authors string it is typed as
AuthorTable ==
    {[names |-> l, str |-> AuthorsString(l, sep)] : l \in NameLists, sep \in Separators}

TitleV == <<"O","n"," ","x">>
YearV == <<"2","0","1","9">>
JournalV == <<"J"," ","M","e","d">>
VolumeV == <<"7">>
IssueV == <<"2">>
PagesV == <<"1","-","9">>
DoiV == <<"1","0",".","1","0","0","0","/","x">>
UrlV == <<"h",":","/","/","u",".","i","o">>

Opt(v) == {<<>>, v}

Cite(title, authors, year, journal, volume, issue, pages, doi, url, source_type) ==
    [title |-> title, authors |-> authors, year |-> year, journal |-> journal,
     volume |-> volume, issue |-> issue, pages |-> pages, doi |-> doi, url |-> url,
     source_type |-> source_type]

FormatInputs ==
    {Cite(t, e.str, <<>>, <<>>, <<>>, <<>>, <<>>, <<>>, <<>>, "manual") :
        t \in Opt(TitleV), e \in AuthorTable}
    \cup {Cite(t, e.str, YearV, JournalV, VolumeV, IssueV, PagesV, DoiV, UrlV, "website") :
        t \in Opt(TitleV), e \in AuthorTable}
    \cup {Cite(t, a, y, j, v, i, p, d, u, "website") :
        t \in Opt(TitleV), a \in Opt(<<"A","n","n"," ","L","e","e">>), y \in Opt(YearV),
        j \in Opt(JournalV), v \in Opt(VolumeV), i \in Opt(IssueV), p \in Opt(PagesV),
        d \in Opt(DoiV), u \in Opt(UrlV)}

IndexInputs == {1, 2, 10}

NoCitation == Cite(<<>>, <<>>, <<>>, <<>>, <<>>, <<>>, <<>>, <<>>, <<>>, "manual")
NoResponse == [ok |-> FALSE, cause |-> "none", doc |-> <<>>]
NoMetadata == [returned |-> FALSE]
\* What a handler showed: the messagebox function, its title, and the cause or
\* text it reports
Msg(handler, box, title, cause, text) ==
    [handler |-> handler, box |-> box, title |-> title, cause |-> cause, text |-> text]
NoMsg == Msg("none", "none", "", "", <<>>)
NoFile == [saved |-> FALSE, name |-> <<>>, text |-> <<>>]

\* The application at rest, for the harnesses that only call pure functions
AppIdle ==
    /\ citations = {}
    /\ sqlite_seq = 0
    /\ citation_tree = <<>>
    /\ style_var = "Vancouver"
    /\ preview_text = <<>>
    /\ msg = NoMsg
    /\ written = NoFile
    /\ gets = 0

----------------------------------------------------------------------------
(* Formatter harness: format_citation applied to a drawn record            *)

FormatInit ==
    /\ AppIdle
    /\ citation \in FormatInputs
    /\ index \in IndexInputs
    /\ formatted = [style |-> "none", text |-> <<>>]
    /\ response = NoResponse
    /\ metadata = NoMetadata

CallVancouver ==
    /\ formatted' = [style |-> "Vancouver", text |-> VancouverFormat(citation, index)]
    /\ UNCHANGED <<appVars, citation, index, extractVars>>

CallAPA ==
    /\ formatted' = [style |-> "APA", text |-> APAFormat(citation, index)]
    /\ UNCHANGED <<appVars, citation, index, extractVars>>

CallMLA ==
    /\ formatted' = [style |-> "MLA", text |-> MLAFormat(citation, index)]
    /\ UNCHANGED <<appVars, citation, index, extractVars>>

FormatNext == CallVancouver \/ CallAPA \/ CallMLA

SpecFormat == FormatInit /\ [][FormatNext]_vars

----------------------------------------------------------------------------
(* Properties of the formatters                                            *)

\* The renderings the claims prescribe, computed from the token lists of the
\* author names and not from the authors string.
Last(l) == l[Len(l)]
Front(l) == SubSeq(l, 1, Len(l) - 1)

ProperNames(names) == Len(names) >= 1 /\ \A i \in 1..Len(names) : names[i] # <<>>

ClaimVancouverName(toks) ==
    IF Len(toks) >= 2
    THEN Last(toks) \o <<" ">> \o [i \in 1..(Len(toks) - 1) |-> Upper(toks[i][1])]
    ELSE toks[1]

ClaimAPAName(toks) ==
    IF Len(toks) >= 2
    THEN Last(toks) \o <<",", " ">>
         \o Join(<<" ">>, [i \in 1..(Len(toks) - 1) |-> <<Upper(toks[i][1]), ".">>])
    ELSE toks[1]

ClaimMLAName(toks) ==
    IF Len(toks) >= 2
    THEN Last(toks) \o <<",", " ">> \o Join(<<" ">>, Front(toks))
    ELSE toks[1]

\* The entries of AuthorTable the formatted record's authors string was typed from
Typed == {e \in AuthorTable : e.str = citation.authors /\ ProperNames(e.names)}

Bare(c) ==
    /\ c.authors = <<>> /\ c.year = <<>> /\ c.journal = <<>> /\ c.volume = <<>>
    /\ c.issue = <<>> /\ c.pages = <<>> /\ c.doi = <<>> /\ c.url = <<>>

\* C1: for a record with every field but the title empty, each formatter
\* returns the title alone (with the style's own punctuation: the final period,
\* MLA's quotes, Vancouver's ordinal) and returns the empty string when the
\* title is empty too.
C1_TitleOnly ==
    (formatted.style # "none" /\ Bare(citation)) =>
        IF citation.title = <<>> THEN formatted.text = <<>>
        ELSE formatted.text \in
                {citation.title \o <<".">>,
                 <<"\"">> \o citation.title \o <<".", "\"">>,
                 IntToStr(index) \o <<".", " ">> \o citation.title \o <<".">>}

\* C2: APA, more than 20 authors: the author segment is the first 19 formatted
\* authors joined by ", ", then ", ... ", then the formatted last author of the
\* source list.
C2_APALastAuthor ==
    \A e \in Typed :
        (formatted.style = "APA" /\ Len(e.names) > 20) =>
            formatted.text =
                Join(<<" ">>,
                     << Join(<<",", " ">>, [i \in 1..19 |-> ClaimAPAName(e.names[i])])
                        \o <<",", " ", ".", ".", ".", " ">>
                        \o ClaimAPAName(Last(e.names)) >>
                     \o APARest(citation))

\* C3: Vancouver, n >= 1 authors: more than 6 gives the first 6 formatted names
\* joined by ", " followed by ", et al."; otherwise all n names in source order
\* joined by ", " followed by one period.
C3_VancouverAuthorCap ==
    \A e \in Typed :
        formatted.style = "Vancouver" =>
            LET n == Len(e.names)
                seg == IF n > 6
                       THEN Join(<<",", " ">>, [i \in 1..6 |-> ClaimVancouverName(e.names[i])])
                            \o <<",", " ", "e", "t", " ", "a", "l", ".">>
                       ELSE Join(<<",", " ">>, [i \in 1..n |-> ClaimVancouverName(e.names[i])])
                            \o <<".">>
            IN formatted.text =
                   IntToStr(index) \o <<".", " ">>
                   \o Join(<<" ">>, <<seg>> \o VancouverRest(citation))

\* C3 witness: a list of 7 names has been formatted by Vancouver and ends in ", et al."
C3_Witness ==
    /\ formatted.style = "Vancouver"
    /\ \E e \in Typed : Len(e.names) = 7
    /\ citation.title = <<>> /\ citation.journal = <<>>
    /\ SubSeq(formatted.text, Len(formatted.text) - 7, Len(formatted.text))
           = <<",", " ", "e", "t", " ", "a", "l", ".">>

\* C4: MLA: with more than one author the author segment is the first author as
\* "Last, First [Middle]" followed by ", et al." and no later author is named;
\* with exactly one author it is "Last, First [Middle].".
C4_MLAFirstAuthorOnly ==
    \A e \in Typed :
        formatted.style = "MLA" =>
            LET seg == IF Len(e.names) > 1
                       THEN ClaimMLAName(e.names[1]) \o <<",", " ", "e", "t", " ", "a", "l", ".">>
                       ELSE ClaimMLAName(e.names[1]) \o <<".">>
            IN formatted.text = Join(<<" ">>, <<seg>> \o MLARest(citation))

----------------------------------------------------------------------------
(* A fetched page                                                          *)

(* A page is the sequence of its elements in document order: meta tags, the *)
(* title tag and runs of body text.  `soup` finds elements in it;           *)
(* response.text is its markup.                                             *)

Meta(attr, key, content) ==
    [kind |-> "meta", attr |-> attr, key |-> key, has |-> TRUE, content |-> content]
MetaNoContent(attr, key) ==
    [kind |-> "meta", attr |-> attr, key |-> key, has |-> FALSE, content |-> <<>>]
TitleTag(text) ==
    [kind |-> "title", attr |-> <<>>, key |-> <<>>, has |-> FALSE, content |-> text]
BodyText(text) ==
    [kind |-> "text", attr |-> <<>>, key |-> <<>>, has |-> FALSE, content |-> text]

PropertyAttr == <<"p", "r", "o", "p", "e", "r", "t", "y">>
NameAttr == <<"n", "a", "m", "e">>
OgTitle == <<"o", "g", ":", "t", "i", "t", "l", "e">>
CitationTitle == <<"c", "i", "t", "a", "t", "i", "o", "n", "_", "t", "i", "t", "l", "e">>
CitationAuthor == <<"c", "i", "t", "a", "t", "i", "o", "n", "_", "a", "u", "t", "h", "o", "r">>
AuthorKey == <<"a", "u", "t", "h", "o", "r">>
CitationPublicationDate == <<"c", "i", "t", "a", "t", "i", "o", "n", "_", "p", "u", "b", "l", "i", "c", "a", "t", "i", "o", "n", "_", "d", "a", "t", "e">>
CitationJournalTitle == <<"c", "i", "t", "a", "t", "i", "o", "n", "_", "j", "o", "u", "r", "n", "a", "l", "_", "t", "i", "t", "l", "e">>
CitationDoi == <<"c", "i", "t", "a", "t", "i", "o", "n", "_", "d", "o", "i">>
UnknownTitle == <<"U", "n", "k", "n", "o", "w", "n", " ", "T", "i", "t", "l", "e">>

\* The markup of one element
Markup(e) ==
    CASE e.kind = "meta" ->
            <<"<", "m", "e", "t", "a", " ">> \o e.attr \o <<"=", "\"">> \o e.key
            \o (IF e.has THEN <<"\"", " ", "c", "o", "n", "t", "e", "n", "t", "=", "\"">> \o e.content
                ELSE <<>>)
            \o <<"\"", ">">>
      [] e.kind = "title" ->
            <<"<", "t", "i", "t", "l", "e", ">">> \o e.content
            \o <<"<", "/", "t", "i", "t", "l", "e", ">">>
      [] e.kind = "text" -> e.content

\* response.text
RECURSIVE HtmlText(_)
HtmlText(doc) == IF doc = <<>> THEN <<>> ELSE Markup(Head(doc)) \o HtmlText(Tail(doc))

None == [found |-> FALSE, content |-> <<>>]

\* soup.find_all('meta', attrs={attr: key}): positions in document order
FindAllMeta(doc, attr, key) ==
    {i \in 1..Len(doc) : doc[i].kind = "meta" /\ doc[i].attr = attr /\ doc[i].key = key}

First(S) == CHOOSE i \in S : \A j \in S : i <= j

\* tag = soup.find('meta', ...); tag and tag.get('content'): the content of the
\* first matching tag when that tag has a non-empty content attribute
MetaContent(doc, attr, key) ==
    LET hits == FindAllMeta(doc, attr, key)
    IN IF hits # {} /\ doc[First(hits)].has /\ doc[First(hits)].content # <<>>
       THEN [found |-> TRUE, content |-> doc[First(hits)].content]
       ELSE None

----------------------------------------------------------------------------
(* Regular expressions of the extractor                                    *)

IsDigit(c) == \E i \in DOMAIN DigitChars : DigitChars[i] = c
IsWord(c) ==
    \/ IsDigit(c)
    \/ \E i \in DOMAIN LowerLetters : LowerLetters[i] = c \/ UpperLetters[i] = c
    \/ c = "_"

\* 20\d{2}|19\d{2} matches at position i
YearAt(s, i) ==
    /\ i + 3 <= Len(s)
    /\ \/ s[i] = "2" /\ s[i + 1] = "0"
       \/ s[i] = "1" /\ s[i + 1] = "9"
    /\ IsDigit(s[i + 2])
    /\ IsDigit(s[i + 3])

\* \b holds between s[i - 1] and s[i]
WordBoundary(s, i) ==
    LET before == i > 1 /\ IsWord(s[i - 1])
        after == i <= Len(s) /\ IsWord(s[i])
    IN before # after

\* re.search(r'20\d{2}|19\d{2}', s)
SearchYear(s) ==
    LET hits == {i \in 1..Len(s) : YearAt(s, i)}
    IN IF hits = {} THEN None
       ELSE [found |-> TRUE, content |-> SubSeq(s, First(hits), First(hits) + 3)]

\* re.search(r'\b(20\d{2}|19\d{2})\b', s)
SearchYearWord(s) ==
    LET hits == {i \in 1..Len(s) :
                    YearAt(s, i) /\ WordBoundary(s, i) /\ WordBoundary(s, i + 4)}
    IN IF hits = {} THEN None
       ELSE [found |-> TRUE, content |-> SubSeq(s, First(hits), First(hits) + 3)]

\* Number of consecutive digits from position i on (\d*, greedy)
DigitRun(s, i) ==
    LET stop == {j \in i..Len(s) : ~IsDigit(s[j])}
    IN IF stop # {} THEN First(stop) - i
       ELSE IF i <= Len(s) THEN Len(s) - i + 1 ELSE 0

\* Number of consecutive non-whitespace characters from position i on ([^\s]*, greedy)
NonSpaceRun(s, i) ==
    LET stop == {j \in i..Len(s) : s[j] \in Whitespace}
    IN IF stop # {} THEN First(stop) - i
       ELSE IF i <= Len(s) THEN Len(s) - i + 1 ELSE 0

DoiMinDigits == 4

\* End of the match of 10\.\d{4,}/[^\s]+ at position i, 0 when it does not match
DoiEnd(s, i) ==
    IF i + 2 <= Len(s) /\ s[i] = "1" /\ s[i + 1] = "0" /\ s[i + 2] = "."
    THEN LET digits == DigitRun(s, i + 3)
             slash == i + 3 + digits
             suffix == NonSpaceRun(s, slash + 1)
         IN IF digits >= DoiMinDigits /\ slash <= Len(s) /\ s[slash] = "/" /\ suffix >= 1
            THEN slash + suffix
            ELSE 0
    ELSE 0

\* Mutant of SearchDoi: a trailing comma is trimmed from the match
SearchDoiMutTrim(s) ==
    LET hits == {i \in 1..Len(s) : DoiEnd(s, i) > 0}
    IN IF hits = {} THEN None
       ELSE [found |-> TRUE,
             content |-> RStrip(SubSeq(s, First(hits), DoiEnd(s, First(hits))), ",")]

\* re.search(r'10\.\d{4,}/[^\s]+', s)
SearchDoi(s) ==
    LET hits == {i \in 1..Len(s) : DoiEnd(s, i) > 0}
    IN IF hits = {} THEN None
       ELSE [found |-> TRUE, content |-> SubSeq(s, First(hits), DoiEnd(s, First(hits)))]

----------------------------------------------------------------------------
(* MetadataExtractor                                                       *)

ExtractTitle(doc) ==
    LET og == MetaContent(doc, PropertyAttr, OgTitle)
        ct == MetaContent(doc, NameAttr, CitationTitle)
        title_tags == {i \in 1..Len(doc) : doc[i].kind = "title"}
    IN IF og.found THEN og.content
       ELSE IF ct.found THEN ct.content
       ELSE IF title_tags # {} THEN Strip(doc[First(title_tags)].content)
       ELSE UnknownTitle

\* The non-empty contents of the tags at positions >= i
RECURSIVE ContentsFrom(_, _, _)
ContentsFrom(doc, hits, i) ==
    IF i > Len(doc) THEN <<>>
    ELSE (IF i \in hits /\ doc[i].has /\ doc[i].content # <<>> THEN <<doc[i].content>> ELSE <<>>)
         \o ContentsFrom(doc, hits, i + 1)

ExtractAuthors(doc) ==
    LET authors == ContentsFrom(doc, FindAllMeta(doc, NameAttr, CitationAuthor), 1)
        meta_author == MetaContent(doc, NameAttr, AuthorKey)
    IN IF authors # <<>> THEN Join(CommaSpace, authors)
       ELSE IF meta_author.found THEN meta_author.content
       ELSE <<>>

\* Mutant of ExtractYear: the page text is scanned without the word boundaries
ExtractYearMutSameScan(doc, html_text, now) ==
    LET date_tag == MetaContent(doc, NameAttr, CitationPublicationDate)
        meta_match == IF date_tag.found THEN SearchYear(date_tag.content) ELSE None
        text_match == SearchYear(html_text)
    IN IF meta_match.found THEN meta_match.content
       ELSE IF text_match.found THEN text_match.content
       ELSE IntToStr(now)

ExtractYear(doc, html_text, now) ==
    LET date_tag == MetaContent(doc, NameAttr, CitationPublicationDate)
        meta_match == IF date_tag.found THEN SearchYear(date_tag.content) ELSE None
        text_match == SearchYearWord(html_text)
    IN IF meta_match.found THEN meta_match.content
       ELSE IF text_match.found THEN text_match.content
       ELSE IntToStr(now)

ExtractJournal(doc) ==
    LET journal_tag == MetaContent(doc, NameAttr, CitationJournalTitle)
    IN IF journal_tag.found THEN journal_tag.content ELSE <<>>

ExtractDoi(doc, html_text) ==
    LET doi_tag == MetaContent(doc, NameAttr, CitationDoi)
        doi_match == SearchDoi(html_text)
    IN IF doi_tag.found THEN doi_tag.content
       ELSE IF doi_match.found THEN doi_match.content
       ELSE <<>>

\* The dict extract_from_url returns for a page retrieved without error
ExtractMetadata(url, doc, now) ==
    [url |-> url,
     title |-> ExtractTitle(doc),
     authors |-> ExtractAuthors(doc),
     year |-> ExtractYear(doc, HtmlText(doc), now),
     journal |-> ExtractJournal(doc),
     doi |-> ExtractDoi(doc, HtmlText(doc)),
     source_type |-> "website"]

\* extract_from_url: one requests.get; any exception is re-raised with its text
ExtractFromUrl(url, resp, now) ==
    IF resp.ok
    THEN [returned |-> TRUE, raised |-> FALSE, value |-> ExtractMetadata(url, resp.doc, now)]
    ELSE [returned |-> FALSE, raised |-> TRUE, failed |-> "Failed to extract metadata", cause |-> resp.cause]

----------------------------------------------------------------------------
(* Extractor harness: extract_from_url applied to a drawn response         *)

MaxTags == 2        \* longest page, in elements

ElementPool ==
    { Meta(PropertyAttr, OgTitle, <<"O", "g", " ", "T">>),
      Meta(PropertyAttr, OgTitle, <<>>),
      MetaNoContent(PropertyAttr, OgTitle),
      Meta(NameAttr, CitationTitle, <<"C", "i", " ", "T">>),
      Meta(NameAttr, CitationTitle, <<>>),
      TitleTag(<<" ", "M", "y", " ", "P", "a", "g", "e", " ">>),
      TitleTag(<<>>),
      TitleTag(<<" ">>),
      Meta(NameAttr, CitationAuthor, <<"A", "n", "n", " ", "L", "e", "e">>),
      Meta(NameAttr, CitationAuthor, <<"B", "o", " ", "K", "i", "m">>),
      Meta(NameAttr, AuthorKey, <<"C", "y", " ", "O", "r", "r">>),
      Meta(NameAttr, CitationPublicationDate, <<"2", "0", "2", "1", "/", "0", "5", "/", "0", "1">>),
      Meta(NameAttr, CitationPublicationDate, <<"1", "2", "0", "1", "9">>),
      Meta(NameAttr, CitationPublicationDate, <<"n", ".", "d", ".">>),
      Meta(NameAttr, CitationJournalTitle, <<"J", " ", "M", "e", "d">>),
      Meta(NameAttr, CitationDoi, <<"1", "0", ".", "5", "5", "5", "5", "/", "m">>),
      Meta(NameAttr, CitationDoi, <<>>),
      BodyText(<<"s", "e", "e", " ", "1", "0", ".", "1", "0", "0", "0", "/", "x", "y", "z", "1", "2", "3", " ", "f", "o", "r", " ", "d", "e", "t", "a", "i", "l", "s">>),
      BodyText(<<"i", "n", " ", "1", "9", "9", "9", " ", "a", "n", "d", " ", "2", "0", "2", "0">>),
      BodyText(<<"a", "3", "2", "0", "1", "9", "b", " ", "1", "9", "8", "7">>),
      BodyText(<<"1", "0", ".", "1", "2", "/", "x", " ", "1", "0", ".", "1", "2", "3", "4", "5", "/", "y", ",", " ", "z">>) }

Causes == {"ConnectionError", "Timeout", "HTTPError"}

Responses ==
    {[ok |-> TRUE, cause |-> "none", doc |-> d] : d \in SeqsUpTo(ElementPool, MaxTags)}
    \cup {[ok |-> FALSE, cause |-> c, doc |-> <<>>] : c \in Causes}

Years == {2026, 2027}

ExtractInit ==
    /\ AppIdle
    /\ citation = NoCitation
    /\ index = 1
    /\ formatted = [style |-> "none", text |-> <<>>]
    /\ response \in Responses
    /\ metadata = NoMetadata

CallExtractReturns ==
    /\ response.ok
    /\ \E now \in Years : metadata' = ExtractFromUrl(UrlV, response, now)
    /\ UNCHANGED <<appVars, formatVars, response>>

CallExtractRaises ==
    /\ ~response.ok
    /\ \E now \in Years : metadata' = ExtractFromUrl(UrlV, response, now)
    /\ UNCHANGED <<appVars, formatVars, response>>

ExtractNext == CallExtractReturns \/ CallExtractRaises

SpecExtract == ExtractInit /\ [][ExtractNext]_vars

----------------------------------------------------------------------------
(* Properties of the extractor                                             *)

\* The content of the page's meta tag `key` (its first, should the page repeat
\* it), empty when the page has none or the tag has no content
RECURSIVE ClaimMeta(_, _)
ClaimMeta(doc, key) ==
    IF doc = <<>> THEN <<>>
    ELSE IF Head(doc).kind = "meta" /\ Head(doc).key = key THEN Head(doc).content
    ELSE ClaimMeta(Tail(doc), key)

\* The text of the page's <title> tag with surrounding blanks removed, empty
\* when the page has none
RECURSIVE ClaimTrim(_)
ClaimTrim(s) ==
    IF s = <<>> THEN <<>>
    ELSE IF Head(s) \in {" ", "\t", "\n"} THEN ClaimTrim(Tail(s))
    ELSE IF Last(s) \in {" ", "\t", "\n"} THEN ClaimTrim(Front(s))
    ELSE s

RECURSIVE ClaimTitleTag(_)
ClaimTitleTag(doc) ==
    IF doc = <<>> THEN <<>>
    ELSE IF Head(doc).kind = "title" THEN ClaimTrim(Head(doc).content)
    ELSE ClaimTitleTag(Tail(doc))

\* The first non-empty element of a list of candidates
RECURSIVE FirstNonEmpty(_)
FirstNonEmpty(candidates) ==
    IF candidates = <<>> THEN <<>>
    ELSE IF Head(candidates) # <<>> THEN Head(candidates)
    ELSE FirstNonEmpty(Tail(candidates))

\* C6: the extracted title is the first non-empty of: og:title content,
\* citation_title content, trimmed <title> text, "Unknown Title"; so it is
\* never empty.
C6_TitleChain ==
    metadata.returned =>
        /\ metadata.value.title =
               FirstNonEmpty(<< ClaimMeta(response.doc, OgTitle),
                                ClaimMeta(response.doc, CitationTitle),
                                ClaimTitleTag(response.doc),
                                <<"U", "n", "k", "n", "o", "w", "n", " ", "T", "i", "t", "l", "e">> >>)
        /\ metadata.value.title # <<>>

ClaimDigits == {"0", "1", "2", "3", "4", "5", "6", "7", "8", "9"}
ClaimWordChars ==
    ClaimDigits \cup {"_"} \cup {LowerLetters[i] : i \in 1..26} \cup {UpperLetters[i] : i \in 1..26}

YearTokens ==
    {<<a[1], a[2], c, d>> : a \in {<<"1", "9">>, <<"2", "0">>}, c \in ClaimDigits, d \in ClaimDigits}

\* The leftmost 19xx / 20xx run of s at or after position i, empty when there
\* is none; `delimited` asks that no letter, digit or underscore adjoins the run
RECURSIVE ClaimYearScan(_, _, _)
ClaimYearScan(s, i, delimited) ==
    IF i + 3 > Len(s) THEN <<>>
    ELSE IF /\ SubSeq(s, i, i + 3) \in YearTokens
            /\ delimited =>
                 /\ i = 1 \/ s[i - 1] \notin ClaimWordChars
                 /\ i + 3 = Len(s) \/ s[i + 4] \notin ClaimWordChars
         THEN SubSeq(s, i, i + 3)
    ELSE ClaimYearScan(s, i + 1, delimited)

ClaimYear(doc, metaDelimited, textDelimited, now) ==
    FirstNonEmpty(<< ClaimYearScan(ClaimMeta(doc, CitationPublicationDate), 1, metaDelimited),
                     ClaimYearScan(HtmlText(doc), 1, textDelimited),
                     IntToStr(now) >>)

\* C7 as claimed: the year is the leftmost 19xx / 20xx token of the
\* citation_publication_date content, else the leftmost match of the same scan
\* over the page text, else the current year; the two scans of the code accept
\* the same tokens (whichever of the two notions of token is meant).
C7_SameScan ==
    metadata.returned =>
        \E delimited \in BOOLEAN :
            /\ \E now \in Years :
                 metadata.value.year = ClaimYear(response.doc, delimited, delimited, now)
            /\ \A s \in {ClaimMeta(response.doc, CitationPublicationDate), HtmlText(response.doc)} :
                 LET token == ClaimYearScan(s, 1, delimited)
                 IN /\ SearchYear(s).content = token
                    /\ SearchYearWord(s).content = token

\* C7 as amended: the date content is scanned for the leftmost 19xx / 20xx run
\* wherever it stands, the page text for the leftmost such run delimited by word
\* boundaries; the first of the two that exists is the year, else the current year.
C7_YearChain ==
    metadata.returned =>
        \E now \in Years :
            metadata.value.year = ClaimYear(response.doc, FALSE, TRUE, now)

\* C7 witness: no date tag, and the page text holds an undelimited run (2019 in
\* a32019b) before the delimited 1987 that the extractor returned.
C7_Witness ==
    /\ metadata.returned
    /\ ClaimMeta(response.doc, CitationPublicationDate) = <<>>
    /\ ClaimYearScan(HtmlText(response.doc), 1, FALSE) = <<"2", "0", "1", "9">>
    /\ metadata.value.year = <<"1", "9", "8", "7">>

\* s[i..j] is a match of 10\.\d{4,}/\S+ that no longer match at i extends
ClaimDoiMatch(s, i, j) ==
    /\ i + 2 <= Len(s) /\ j <= Len(s)
    /\ SubSeq(s, i, i + 2) = <<"1", "0", ".">>
    /\ \E p \in (i + 7)..(j - 1) :
         /\ s[p] = "/"
         /\ \A q \in (i + 3)..(p - 1) : s[q] \in ClaimDigits
         /\ \A q \in (p + 1)..j : s[q] \notin {" ", "\t", "\n"}
    /\ j = Len(s) \/ s[j + 1] \in {" ", "\t", "\n"}

ClaimDoi(doc) ==
    LET s == HtmlText(doc)
        starts == {i \in 1..Len(s) : \E j \in i..Len(s) : ClaimDoiMatch(s, i, j)}
    IN IF ClaimMeta(doc, CitationDoi) # <<>> THEN ClaimMeta(doc, CitationDoi)
       ELSE IF starts = {} THEN <<>>
       ELSE LET i == CHOOSE i \in starts : \A o \in starts : i <= o
            IN SubSeq(s, i, CHOOSE j \in i..Len(s) : ClaimDoiMatch(s, i, j))

DoiExample ==
    <<BodyText(<<"s", "e", "e", " ", "1", "0", ".", "1", "0", "0", "0", "/", "x", "y", "z", "1", "2", "3", " ", "f", "o", "r", " ", "d", "e", "t", "a", "i", "l", "s">>)>>

\* C8: the doi is the citation_doi content when non-empty, else the leftmost
\* match in the page text of "10." + at least 4 digits + "/" + the maximal run
\* of non-whitespace, else empty; "see 10.1000/xyz123 for details" gives
\* exactly 10.1000/xyz123.
C8_DoiChain ==
    metadata.returned =>
        /\ metadata.value.doi = ClaimDoi(response.doc)
        /\ response.doc = DoiExample =>
             metadata.value.doi = <<"1", "0", ".", "1", "0", "0", "0", "/", "x", "y", "z", "1", "2", "3">>

\* C8 witness: the doi was taken from the page text although a citation_doi tag
\* is present (with empty content), and it keeps its trailing punctuation.
C8_Witness ==
    /\ metadata.returned
    /\ \E i \in 1..Len(response.doc) :
         response.doc[i].kind = "meta" /\ response.doc[i].key = CitationDoi
    /\ metadata.value.doi = <<"1", "0", ".", "1", "2", "3", "4", "5", "/", "y", ",">>

----------------------------------------------------------------------------
(* CitationDatabase                                                        *)

MaxRows == 2        \* rows ever inserted

\* add_citation: INSERT with the missing keys defaulted; AUTOINCREMENT gives the
\* row an id above every id ever used.  date_added is not modelled.
AddCitation(rows, seq, data) ==
    rows \cup {[id |-> seq + 1, title |-> data.title, authors |-> data.authors,
                year |-> data.year, journal |-> data.journal, volume |-> data.volume,
                issue |-> data.issue, pages |-> data.pages, doi |-> data.doi,
                url |-> data.url, source_type |-> data.source_type]}

\* Mutant of GetAllCitations: ORDER BY id DESC
RECURSIVE GetAllCitationsMutDesc(_)
GetAllCitationsMutDesc(rows) ==
    IF rows = {} THEN <<>>
    ELSE LET r == CHOOSE r \in rows : \A o \in rows : r.id >= o.id
         IN <<r>> \o GetAllCitationsMutDesc(rows \ {r})

\* get_all_citations: SELECT * FROM citations ORDER BY id
RECURSIVE GetAllCitations(_)
GetAllCitations(rows) ==
    IF rows = {} THEN <<>>
    ELSE LET r == CHOOSE r \in rows : \A o \in rows : r.id <= o.id
         IN <<r>> \o GetAllCitations(rows \ {r})

\* delete_citation
DeleteCitation(rows, citation_id) == {r \in rows : r.id # citation_id}

\* refresh_citation_list: the tree shows the stored rows; a tree row is
\* modelled by the id in its first column
RefreshedTree(rows) == [i \in 1..Len(GetAllCitations(rows)) |-> GetAllCitations(rows)[i].id]

----------------------------------------------------------------------------
(* Bibliography text                                                       *)

RuleWidth == 80

BibliographyLabel == <<"B", "i", "b", "l", "i", "o", "g", "r", "a", "p", "h", "y", " ", "(">>
StyleLabel == <<" ", "S", "t", "y", "l", "e", ")">>

StyleName(style) ==
    CASE style = "Vancouver" -> <<"V", "a", "n", "c", "o", "u", "v", "e", "r">>
      [] style = "APA" -> <<"A", "P", "A">>
      [] style = "MLA" -> <<"M", "L", "A">>

\* f"Bibliography ({style} Style)\n" + "=" * 80 + "\n\n"
Header(style) ==
    BibliographyLabel \o StyleName(style) \o StyleLabel \o <<"\n">>
    \o Repeat("=", RuleWidth) \o <<"\n", "\n">>

\* for idx, citation in enumerate(citations, 1): formatted + "\n\n"
RECURSIVE Entries(_, _, _)
Entries(style, list, idx) ==
    IF idx > Len(list) THEN <<>>
    ELSE FormatCitation(style, list[idx], idx) \o <<"\n", "\n">> \o Entries(style, list, idx + 1)

Render(style, list) == Header(style) \o Entries(style, list, 1)

----------------------------------------------------------------------------
(* CitationManagerApp                                                      *)

PageV ==
    << Meta(PropertyAttr, OgTitle, <<"O", "g", " ", "T">>),
       Meta(NameAttr, CitationAuthor, <<"A", "n", "n", " ", "L", "e", "e">>),
       Meta(NameAttr, CitationAuthor, <<"B", "o", " ", "K", "i", "m">>),
       BodyText(<<"s", "e", "e", " ", "1", "0", ".", "1", "0", "0", "0", "/", "x", "y", "z", "1", "2", "3", " ", "f", "o", "r", " ", "d", "e", "t", "a", "i", "l", "s">>) >>

\* What the network may answer to the one request of fetch_and_add
AppResponses ==
    {[ok |-> TRUE, cause |-> "none", doc |-> PageV]}
    \cup {[ok |-> FALSE, cause |-> c, doc |-> <<>>] : c \in Causes}

\* What the user may have typed in the URL entry
UrlEntries == {<<>>, <<" ">>, <<" ">> \o UrlV}

\* What the user may have typed in the manual entry fields
ManualEntries ==
    {[title |-> t, authors |-> <<"J", ".", " ", "P", "o", "e", ",", "P", "l", "a", "t", "o">>,
      year |-> YearV \o <<" ">>, journal |-> JournalV, doi |-> <<>>] :
        t \in {<<>>, <<" ">>, <<" ">> \o TitleV}}

FileNames == {<<>>, <<"b", ".", "t", "x", "t">>}

\* The keys add_citation reads with a default
WithDefaults(data) ==
    [title |-> data.title, authors |-> data.authors, year |-> data.year,
     journal |-> data.journal,
     volume |-> <<>>, issue |-> <<>>, pages |-> <<>>,
     doi |-> data.doi,
     url |-> IF "url" \in DOMAIN data THEN data.url ELSE <<>>,
     source_type |-> data.source_type]

Init ==
    /\ AppIdle
    /\ citation = NoCitation
    /\ index = 1
    /\ formatted = [style |-> "none", text |-> <<>>]
    /\ response = NoResponse
    /\ metadata = NoMetadata

harness == <<formatVars, extractVars>>

\* fetch_and_add with an empty URL entry
FetchNoUrl ==
    /\ \E typed \in UrlEntries : Strip(typed) = <<>>
    /\ msg' = Msg("fetch_and_add", "showwarning", "Input Required", "", <<>>)
    /\ gets' = 0
    /\ written' = NoFile
    /\ UNCHANGED <<citations, sqlite_seq, citation_tree, style_var, preview_text, harness>>

\* fetch_and_add, the page retrieved: the metadata is stored and the list refreshed
FetchAdded ==
    /\ sqlite_seq < MaxRows
    /\ \E typed \in UrlEntries, resp \in AppResponses, now \in Years :
         LET url == Strip(typed)
             result == ExtractFromUrl(url, resp, now)
         IN /\ url # <<>>
            /\ result.returned
            /\ citations' = AddCitation(citations, sqlite_seq, WithDefaults(result.value))
            /\ sqlite_seq' = sqlite_seq + 1
            /\ citation_tree' = RefreshedTree(citations')
            /\ msg' = Msg("fetch_and_add", "showinfo", "Success", "", result.value.title)
    /\ gets' = 1
    /\ written' = NoFile
    /\ UNCHANGED <<style_var, preview_text, harness>>

\* Mutant of FetchFailed: the failure still stores a record holding the URL
FetchFailedMutStores ==
    /\ sqlite_seq < MaxRows
    /\ \E typed \in UrlEntries, resp \in AppResponses, now \in Years :
         LET url == Strip(typed)
             result == ExtractFromUrl(url, resp, now)
         IN /\ url # <<>>
            /\ result.raised
            /\ citations' = AddCitation(citations, sqlite_seq,
                                        [NoCitation EXCEPT !.url = url, !.source_type = "website"])
            /\ sqlite_seq' = sqlite_seq + 1
            /\ citation_tree' = RefreshedTree(citations')
            /\ msg' = Msg("fetch_and_add", "showerror", "Error", result.cause, <<>>)
    /\ gets' = 1
    /\ written' = NoFile
    /\ UNCHANGED <<style_var, preview_text, harness>>

\* fetch_and_add, the retrieval failed: the exception is shown, nothing is stored
FetchFailed ==
    /\ \E typed \in UrlEntries, resp \in AppResponses, now \in Years :
         LET url == Strip(typed)
             result == ExtractFromUrl(url, resp, now)
         IN /\ url # <<>>
            /\ result.raised
            /\ msg' = Msg("fetch_and_add", "showerror", "Error", result.cause, <<>>)
    /\ gets' = 1
    /\ written' = NoFile
    /\ UNCHANGED <<citations, sqlite_seq, citation_tree, style_var, preview_text, harness>>

\* add_manual_citation without a title
ManualNoTitle ==
    /\ \E typed \in ManualEntries : Strip(typed.title) = <<>>
    /\ msg' = Msg("add_manual_citation", "showwarning", "Input Required", "", <<>>)
    /\ gets' = 0
    /\ written' = NoFile
    /\ UNCHANGED <<citations, sqlite_seq, citation_tree, style_var, preview_text, harness>>

\* add_manual_citation
ManualAdded ==
    /\ sqlite_seq < MaxRows
    /\ \E typed \in ManualEntries :
         LET citation_data ==
                 [title |-> Strip(typed.title), authors |-> Strip(typed.authors),
                  year |-> Strip(typed.year), journal |-> Strip(typed.journal),
                  doi |-> Strip(typed.doi), source_type |-> "manual"]
         IN /\ citation_data.title # <<>>
            /\ citations' = AddCitation(citations, sqlite_seq, WithDefaults(citation_data))
    /\ sqlite_seq' = sqlite_seq + 1
    /\ citation_tree' = RefreshedTree(citations')
    /\ msg' = Msg("add_manual_citation", "showinfo", "Success", "", <<>>)
    /\ gets' = 0
    /\ written' = NoFile
    /\ UNCHANGED <<style_var, preview_text, harness>>

\* refresh_citation_list, from the Refresh button
Refresh ==
    /\ citation_tree' = RefreshedTree(citations)
    /\ msg' = Msg("refresh_citation_list", "none", "", "", <<>>)
    /\ gets' = 0
    /\ written' = NoFile
    /\ UNCHANGED <<citations, sqlite_seq, style_var, preview_text, harness>>

\* delete_selected with nothing selected
DeleteNoSelection ==
    /\ msg' = Msg("delete_selected", "showwarning", "No Selection", "", <<>>)
    /\ gets' = 0
    /\ written' = NoFile
    /\ UNCHANGED <<citations, sqlite_seq, citation_tree, style_var, preview_text, harness>>

\* delete_selected, the confirmation declined
DeleteDeclined ==
    /\ citation_tree # <<>>
    /\ msg' = Msg("delete_selected", "askyesno", "Confirm Delete", "", <<>>)
    /\ gets' = 0
    /\ written' = NoFile
    /\ UNCHANGED <<citations, sqlite_seq, citation_tree, style_var, preview_text, harness>>

\* delete_selected: every selected row is deleted by the id in its first column
DeleteSelected ==
    /\ \E selected \in (SUBSET {citation_tree[i] : i \in 1..Len(citation_tree)}) \ {{}} :
         citations' = {r \in citations : r \notin {o \in citations : o.id \in selected}}
    /\ citation_tree' = RefreshedTree(citations')
    /\ msg' = Msg("delete_selected", "showinfo", "Success", "", <<>>)
    /\ gets' = 0
    /\ written' = NoFile
    /\ UNCHANGED <<sqlite_seq, style_var, preview_text, harness>>

\* clear_all, the confirmation declined
ClearDeclined ==
    /\ msg' = Msg("clear_all", "askyesno", "Confirm Clear All", "", <<>>)
    /\ gets' = 0
    /\ written' = NoFile
    /\ UNCHANGED <<citations, sqlite_seq, citation_tree, style_var, preview_text, harness>>

\* clear_all: the table and the preview pane are emptied
ClearAll ==
    /\ citations' = {}
    /\ citation_tree' = RefreshedTree(citations')
    /\ preview_text' = <<>>
    /\ msg' = Msg("clear_all", "showinfo", "Success", "", <<>>)
    /\ gets' = 0
    /\ written' = NoFile
    /\ UNCHANGED <<sqlite_seq, style_var, harness>>

\* The style combobox
SelectStyle ==
    /\ \E style \in Styles : style_var' = style
    /\ msg' = Msg("style_dropdown", "none", "", "", <<>>)
    /\ gets' = 0
    /\ written' = NoFile
    /\ UNCHANGED <<citations, sqlite_seq, citation_tree, preview_text, harness>>

\* Mutant of PreviewNoCitations: an empty store is rendered as a bare header
PreviewNoCitationsMutHeader ==
    /\ GetAllCitations(citations) = <<>>
    /\ preview_text' = Render(style_var, GetAllCitations(citations))
    /\ msg' = Msg("preview_bibliography", "none", "", "", <<>>)
    /\ gets' = 0
    /\ written' = NoFile
    /\ UNCHANGED <<citations, sqlite_seq, citation_tree, style_var, harness>>

\* preview_bibliography with nothing stored
PreviewNoCitations ==
    /\ GetAllCitations(citations) = <<>>
    /\ msg' = Msg("preview_bibliography", "showinfo", "No Citations", "", <<>>)
    /\ gets' = 0
    /\ written' = NoFile
    /\ UNCHANGED <<citations, sqlite_seq, citation_tree, style_var, preview_text, harness>>

\* preview_bibliography
PreviewBibliography ==
    /\ GetAllCitations(citations) # <<>>
    /\ preview_text' = Render(style_var, GetAllCitations(citations))
    /\ msg' = Msg("preview_bibliography", "none", "", "", <<>>)
    /\ gets' = 0
    /\ written' = NoFile
    /\ UNCHANGED <<citations, sqlite_seq, citation_tree, style_var, harness>>

\* export_bibliography with nothing stored
ExportNoCitations ==
    /\ GetAllCitations(citations) = <<>>
    /\ msg' = Msg("export_bibliography", "showinfo", "No Citations", "", <<>>)
    /\ gets' = 0
    /\ written' = NoFile
    /\ UNCHANGED <<citations, sqlite_seq, citation_tree, style_var, preview_text, harness>>

\* export_bibliography, the file dialog cancelled
ExportCancelled ==
    /\ GetAllCitations(citations) # <<>>
    /\ \E filename \in FileNames : filename = <<>>
    /\ msg' = Msg("export_bibliography", "none", "", "", <<>>)
    /\ gets' = 0
    /\ written' = NoFile
    /\ UNCHANGED <<citations, sqlite_seq, citation_tree, style_var, preview_text, harness>>

\* export_bibliography
ExportBibliography ==
    /\ GetAllCitations(citations) # <<>>
    /\ \E filename \in FileNames :
         /\ filename # <<>>
         /\ written' = [saved |-> TRUE, name |-> filename,
                        text |-> Render(style_var, GetAllCitations(citations))]
         /\ msg' = Msg("export_bibliography", "showinfo", "Success", "", filename)
    /\ gets' = 0
    /\ UNCHANGED <<citations, sqlite_seq, citation_tree, style_var, preview_text, harness>>

\* export_bibliography, the file cannot be opened for writing
ExportFailed ==
    /\ GetAllCitations(citations) # <<>>
    /\ \E filename \in FileNames : filename # <<>>
    /\ msg' = Msg("export_bibliography", "showerror", "Export Error", "OSError", <<>>)
    /\ gets' = 0
    /\ written' = NoFile
    /\ UNCHANGED <<citations, sqlite_seq, citation_tree, style_var, preview_text, harness>>

Next ==
    \/ FetchNoUrl \/ FetchAdded \/ FetchFailed
    \/ ManualNoTitle \/ ManualAdded
    \/ Refresh
    \/ DeleteNoSelection \/ DeleteDeclined \/ DeleteSelected
    \/ ClearDeclined \/ ClearAll
    \/ SelectStyle
    \/ PreviewNoCitations \/ PreviewBibliography
    \/ ExportNoCitations \/ ExportCancelled \/ ExportBibliography \/ ExportFailed

Spec == Init /\ [][Next]_vars

----------------------------------------------------------------------------
(* Properties of the application                                           *)

\* The stored rows by increasing id: the k-th is the row with k - 1 rows below it
ClaimOrdered(rows) ==
    [k \in 1..Cardinality(rows) |->
        CHOOSE r \in rows : Cardinality({o \in rows : o.id < r.id}) = k - 1]

RECURSIVE Concat(_)
Concat(list) == IF list = <<>> THEN <<>> ELSE Head(list) \o Concat(Tail(list))

\* A title line naming the style and a rule line, a blank line, then every
\* stored row once, in id order, numbered 1..n, each followed by a blank line
ClaimBibliography(rows, style) ==
    <<"B", "i", "b", "l", "i", "o", "g", "r", "a", "p", "h", "y", " ", "(">>
    \o StyleName(style) \o <<" ", "S", "t", "y", "l", "e", ")", "\n">>
    \o [i \in 1..80 |-> "="] \o <<"\n">>
    \o <<"\n">>
    \o Concat([k \in 1..Cardinality(rows) |->
                  FormatCitation(style, ClaimOrdered(rows)[k], k) \o <<"\n", "\n">>])

Renders == {"preview_bibliography", "export_bibliography"}

\* C5 as claimed: a preview or export over an empty store produces just the
\* two-line style header with no entries, and no error.
C5_EmptyRenderHeader ==
    /\ (citations = {} /\ msg.handler = "preview_bibliography") =>
           /\ msg.box # "showerror"
           /\ preview_text = ClaimBibliography({}, style_var)
    /\ (citations = {} /\ msg.handler = "export_bibliography") =>
           /\ msg.box # "showerror"
           /\ written.saved /\ written.text = ClaimBibliography({}, style_var)

\* C5 as amended: a preview or export over an empty store renders nothing: it
\* shows the "No Citations" information box, leaves the preview pane as it was
\* and writes no file; no error is raised.
C5_EmptyRenderSkipped ==
    [][(citations' = {} /\ msg'.handler \in Renders) =>
          /\ msg'.box = "showinfo" /\ msg'.title = "No Citations"
          /\ preview_text' = preview_text
          /\ written' = NoFile]_vars

\* C5 witness: the store was emptied by deletions, the preview was asked for and
\* the pane still shows the earlier bibliography.
C5_Witness ==
    /\ citations = {}
    /\ msg.handler = "preview_bibliography" /\ msg.title = "No Citations"
    /\ preview_text # <<>>

\* C9: fetch_and_add makes one request; when the retrieval fails the error shown
\* carries the retrieval's cause and the store, its id counter and the list are
\* as before; a record is added only by a successful retrieval.
C9_FetchAtomic ==
    [][msg'.handler = "fetch_and_add" =>
          /\ msg'.box \in {"showerror", "showinfo", "showwarning"}
          /\ msg'.box = "showerror" =>
                /\ msg'.cause \in Causes
                /\ gets' = 1
                /\ citations' = citations
                /\ sqlite_seq' = sqlite_seq
                /\ citation_tree' = citation_tree
          /\ msg'.box = "showinfo" =>
                /\ gets' = 1
                /\ citations \subseteq citations'
                /\ Cardinality(citations') = Cardinality(citations) + 1
          /\ msg'.box = "showwarning" =>
                /\ gets' = 0
                /\ citations' = citations]_vars

\* C9 witness: a timeout was reported over a non-empty store after one request.
C9_Witness ==
    /\ msg.handler = "fetch_and_add" /\ msg.box = "showerror" /\ msg.cause = "Timeout"
    /\ gets = 1
    /\ citations # {}

\* C10: a render over a non-empty store is the two-line header naming the
\* selected style followed by exactly the stored rows, once each, in id order,
\* numbered 1..n without gaps, each followed by a blank line.
C10_BibliographyOrder ==
    /\ (msg.handler = "preview_bibliography" /\ citations # {}) =>
           preview_text = ClaimBibliography(citations, style_var)
    /\ (msg.handler = "export_bibliography" /\ written.saved) =>
           written.text = ClaimBibliography(citations, style_var)

\* C10 witness: row 1 was deleted, and the Vancouver preview numbers row 2 as 1.
C10_Witness ==
    /\ msg.handler = "preview_bibliography" /\ style_var = "Vancouver"
    /\ {r.id : r \in citations} = {2}
    /\ SubSeq(preview_text, Len(Header("Vancouver")) + 1, Len(Header("Vancouver")) + 3)
           = <<"1", ".", " ">>

----------------------------------------------------------------------------
(* Properties of the formatters: names, journal block, identifier          *)

\* The author segment of a list of rendered names in each style's joining rule
ClaimVancouverSegment(rendered) ==
    IF Len(rendered) > 6
    THEN Join(<<",", " ">>, SubSeq(rendered, 1, 6)) \o <<",", " ", "e", "t", " ", "a", "l", ".">>
    ELSE Join(<<",", " ">>, rendered) \o <<".">>

ClaimAPASegment(rendered) ==
    IF Len(rendered) > 1
    THEN Join(<<",", " ">>, Front(rendered)) \o <<",", " ", "&", " ">> \o Last(rendered)
    ELSE rendered[1]

\* C11: every author name of two or more tokens is rendered "Last FM" by
\* Vancouver and "Last, F. M." by APA, and a name of exactly one token is
\* rendered as typed by Vancouver, by APA and by MLA (where it is the first
\* author, followed by "." or by ", et al.").
C11_NameTransformation ==
    \A e \in Typed :
        LET n == Len(e.names) IN
        /\ formatted.style = "Vancouver" =>
               formatted.text =
                   IntToStr(index) \o <<".", " ">>
                   \o Join(<<" ">>,
                           <<ClaimVancouverSegment([i \in 1..n |-> ClaimVancouverName(e.names[i])])>>
                           \o VancouverRest(citation))
        /\ (formatted.style = "APA" /\ n <= 20) =>
               formatted.text =
                   Join(<<" ">>,
                        <<ClaimAPASegment([i \in 1..n |-> ClaimAPAName(e.names[i])])>>
                        \o APARest(citation))
        /\ (formatted.style = "MLA" /\ Len(e.names[1]) = 1) =>
               formatted.text =
                   Join(<<" ">>,
                        <<e.names[1][1]
                          \o (IF n > 1 THEN <<",", " ", "e", "t", " ", "a", "l", ".">>
                              ELSE <<".">>)>>
                        \o MLARest(citation))

\* A sub-part with the separator or label before it and what closes it,
\* present only when the sub-part is non-empty
ClaimPart(before, v, after) == IF v = <<>> THEN <<>> ELSE before \o v \o after

\* The journal-block segment of a record: the style's template when the
\* journal is present, the bare year for Vancouver without a journal
ClaimJournalBlock(style, c) ==
    IF c.journal # <<>>
    THEN CASE style = "Vancouver" ->
                <<c.journal
                  \o ClaimPart(<<" ">>, c.year, <<>>)
                  \o ClaimPart(<<";">>, c.volume, <<>>)
                  \o ClaimPart(<<"(">>, c.issue, <<")">>)
                  \o ClaimPart(<<":">>, c.pages, <<>>)
                  \o <<".">> >>
           [] style = "APA" ->
                <<c.journal
                  \o ClaimPart(<<",", " ">>, c.volume, <<>>)
                  \o ClaimPart(<<"(">>, c.issue, <<")">>)
                  \o ClaimPart(<<",", " ">>, c.pages, <<>>)
                  \o <<".">> >>
           [] style = "MLA" ->
                <<c.journal
                  \o ClaimPart(<<",", " ", "v", "o", "l", ".", " ">>, c.volume, <<>>)
                  \o ClaimPart(<<",", " ", "n", "o", ".", " ">>, c.issue, <<>>)
                  \o ClaimPart(<<",", " ">>, c.year, <<>>)
                  \o ClaimPart(<<",", " ", "p", "p", ".", " ">>, c.pages, <<>>)
                  \o <<".">> >>
    ELSE IF style = "Vancouver" /\ c.year # <<>> THEN <<c.year \o <<".">> >>
    ELSE <<>>

\* The records the journal-block rule speaks about
ClaimJournalCase(style, c) ==
    \/ c.journal # <<>>
    \/ style = "Vancouver" /\ c.year # <<>>
    \/ c.year = <<>> /\ c.volume = <<>> /\ c.issue = <<>> /\ c.pages = <<>>

\* The returned string with the given segments in the journal block's and the
\* identifier's places
ClaimAssembled(style, c, idx, block, identifier) ==
    LET authors(seg) == IF c.authors # <<>> THEN <<seg>> ELSE <<>>
    IN CASE style = "Vancouver" ->
                IntToStr(idx) \o <<".", " ">>
                \o Join(<<" ">>, authors(VancouverAuthors(c.authors)) \o VancouverTitle(c)
                                 \o block \o identifier)
         [] style = "APA" ->
                Join(<<" ">>, authors(APAAuthors(c.authors)) \o APAYear(c) \o APATitle(c)
                             \o block \o identifier)
         [] style = "MLA" ->
                Join(<<" ">>, authors(MLAAuthors(c.authors)) \o MLATitle(c)
                             \o block \o identifier)

Identifier(style, c) ==
    CASE style = "Vancouver" -> VancouverIdentifier(c)
      [] style = "APA" -> APAIdentifier(c)
      [] style = "MLA" -> MLAIdentifier(c)

\* C12: with a journal, the journal block is the style's template with each
\* sub-part and the separator or label before it present exactly when the
\* sub-part is non-empty; Vancouver without a journal and with a year gives
\* "<year>."; no formatter emits a journal block when journal, year, volume,
\* issue and pages are all empty.
C12_JournalBlock ==
    (formatted.style # "none" /\ ClaimJournalCase(formatted.style, citation)) =>
        formatted.text =
            ClaimAssembled(formatted.style, citation, index,
                           ClaimJournalBlock(formatted.style, citation),
                           Identifier(formatted.style, citation))

\* C12 witness: Vancouver has formatted a record with a journal, an issue and
\* pages but neither year nor volume, and no separator of a missing part shows
C12_Witness ==
    /\ formatted.style = "Vancouver" /\ index = 1
    /\ citation.authors = <<>> /\ citation.title = <<>>
    /\ citation.doi = <<>> /\ citation.url = <<>>
    /\ citation.journal = JournalV /\ citation.year = <<>> /\ citation.volume = <<>>
    /\ citation.issue = IssueV /\ citation.pages = PagesV
    /\ formatted.text = <<"1", ".", " ", "J", " ", "M", "e", "d", "(", "2", ")", ":", "1", "-", "9", ".">>

JournalBlock(style, c) ==
    CASE style = "Vancouver" -> VancouverJournal(c)
      [] style = "APA" -> APAJournal(c)
      [] style = "MLA" -> MLAJournal(c)

\* The identifier segment of a record: the doi when it is non-empty, else the
\* url when it is non-empty, else nothing, in the style's rendering
ClaimIdentifier(style, c) ==
    LET id == IF c.doi # <<>> THEN "doi" ELSE IF c.url # <<>> THEN "url" ELSE "none"
    IN CASE id = "none" -> <<>>
         [] id = "doi" /\ style = "Vancouver" -> << <<"d", "o", "i", ":">> \o c.doi >>
         [] id = "url" /\ style = "Vancouver" ->
                << <<"A", "v", "a", "i", "l", "a", "b", "l", "e", " ", "f", "r", "o", "m", ":", " ">>
                   \o c.url >>
         [] id = "doi" /\ style = "APA" ->
                << <<"h", "t", "t", "p", "s", ":", "/", "/", "d", "o", "i", ".", "o", "r", "g", "/">>
                   \o c.doi >>
         [] id = "url" /\ style = "APA" -> <<c.url>>
         [] id = "doi" /\ style = "MLA" -> << <<"d", "o", "i", ":">> \o c.doi \o <<".">> >>
         [] id = "url" /\ style = "MLA" -> <<c.url \o <<".">> >>

\* C13: every formatter emits at most one identifier, last of the segments:
\* the doi in the style's rendering when the doi is non-empty, the url in the
\* style's rendering only when the doi is empty, nothing when both are empty.
C13_Identifier ==
    formatted.style # "none" =>
        formatted.text =
            ClaimAssembled(formatted.style, citation, index,
                           JournalBlock(formatted.style, citation),
                           ClaimIdentifier(formatted.style, citation))

\* C13 witness: APA has formatted a record holding both a doi and a url and
\* returned the doi link alone
C13_Witness ==
    /\ formatted.style = "APA"
    /\ citation.doi = DoiV /\ citation.url = UrlV
    /\ citation.authors = <<>> /\ citation.title = <<>>
    /\ citation.journal = <<>> /\ citation.year = <<>>
    /\ formatted.text = <<"h", "t", "t", "p", "s", ":", "/", "/", "d", "o", "i", ".", "o", "r", "g", "/">> \o DoiV

NonEmptyName(toks) == toks # <<>>

\* C14: the empty and whitespace-only elements of the split authors string are
\* not authors: each formatter returns what it returns for the authors string
\* typed from the non-empty names alone, so such an element is neither rendered
\* nor counted towards an author-count threshold.
C14_EmptyElementsIgnored ==
    \A e \in AuthorTable :
        (formatted.style # "none" /\ e.str = citation.authors) =>
            formatted.text =
                FormatCitation(formatted.style,
                               [citation EXCEPT
                                   !.authors = AuthorsString(SelectSeq(e.names, NonEmptyName), <<",">>)],
                               index)

====
